---- MODULE Spec2Model ----
(***************************************************************************)
(* Model of apps/dash-label-properties/app.py: a segmented image whose     *)
(* regions are listed in a filterable, row-deletable DataTable, a figure   *)
(* with one hover trace per table row, and four Dash callbacks             *)
(* (higlight_row, highlight_filter, toggle_modal, toggle_navbar_collapse). *)
(*                                                                         *)
(* Python values: None is modelled by the integer None (-1) for values     *)
(* that are otherwise naturals, and by the string "None" for is_open,      *)
(* whose other values are "True" and "False".  n_clicks is None until the  *)
(* first click; None and 0 are both falsy and are both modelled by 0.      *)
(*                                                                         *)
(* The DataTable widget itself is a library: the model takes from it that  *)
(* derived_virtual_indices lists, in data order, the 0-based positions in  *)
(* data of the rows passing the filter, that active_cell["row"] is the     *)
(* position of the activated row in that view, that only a visible row     *)
(* can be deleted, and that a callback whose function raises leaves its    *)
(* outputs as they were.  Whether the widget keeps or clears active_cell   *)
(* on a filter change or a row deletion is left open (both are modelled).  *)
(* The handlers read only active_cell["row"], so the column is not kept.   *)
(***************************************************************************)
EXTENDS Integers, Sequences, FiniteSets

\* Number of connected regions found by measure.label in the image.
NumLabels == 3
\* Largest n_clicks value a button reaches in the model.
MaxClicks == 4

None == -1

VARIABLES
    data,                     \* table-line.data: sequence of row records
    filter_query,             \* table-line filter: the labels it lets through
    derived_virtual_indices,  \* table-line.derived_virtual_indices (0-based)
    active_cell,              \* table-line.active_cell["row"], or None
    cache_label_list,         \* cache-label-list.data
    row_children,             \* row.children: the remembered row, or None
    figure,                   \* graph.figure
    style_data_conditional,   \* label of the filter_query of the row style, or None
    modal_is_open,            \* modal.is_open
    navbar_is_open,           \* navbar-collapse.is_open
    howto_open_clicks,        \* howto-open.n_clicks
    howto_close_clicks,       \* howto-close.n_clicks
    navbar_toggler_clicks,    \* navbar-toggler.n_clicks
    pending,                  \* callbacks still to be fired by the page load
    modal_before,             \* modal.is_open before the latest modal click
    navbar_before             \* navbar-collapse.is_open before the latest toggler click

vars == <<data, filter_query, derived_virtual_indices, active_cell,
          cache_label_list, row_children, figure, style_data_conditional,
          modal_is_open, navbar_is_open, howto_open_clicks, howto_close_clicks,
          navbar_toggler_clicks, pending, modal_before, navbar_before>>

tableVars == <<data, filter_query, derived_virtual_indices, active_cell,
               cache_label_list, row_children, figure>>
toggleVars == <<modal_is_open, navbar_is_open, howto_open_clicks,
                howto_close_clicks, navbar_toggler_clicks, pending,
                modal_before, navbar_before>>

----------------------------------------------------------------------------
\* Startup computation (module level of app.py)

\* The label map, one pixel per region plus one background pixel (label 0).
Pixels == 0..NumLabels
label_array == [p \in Pixels |-> p]

\* np.unique(label_array)[np.nonzero(np.unique(label_array))]
current_labels == {label_array[p] : p \in Pixels} \ {0}

\* A table that also lists the background (label 0) as a region.
table_with_background == [i \in 1..(NumLabels + 1) |-> [label |-> i - 1]]

\* regionprops_table / DataFrame: one row per region, in label order.
table == [i \in 1..NumLabels |-> [label |-> i]]

Range(s) == {s[i] : i \in 1..Len(s)}

\* The labels of a sequence of rows, in row order.
Labels(rows) == [i \in 1..Len(rows) |-> rows[i].label]

----------------------------------------------------------------------------
\* image_with_contour: the figure's traces, in the order they are added.
\* Trace 0 is the background image (px.imshow), trace 1 the colourised label
\* image (fig.add_image), then one scatter trace per row of data_table.

ImageTrace == [type |-> "image", name |-> 0, shown |-> {}]
OverlayTrace(shown) == [type |-> "image", name |-> 0, shown |-> shown]
ScatterTrace(label) == [type |-> "scatter", name |-> label, shown |-> {}]
ContourTrace(label) == [type |-> "contour", name |-> label, shown |-> {}]

\* mask = np.in1d(label_array, active_labels, invert=True); the labels left
\* unmasked are the ones the overlay colours.
Unmasked(active_labels) ==
    {label_array[p] : p \in {q \in Pixels : label_array[q] \in active_labels}}

image_with_contour(active_labels, data_table) ==
    <<ImageTrace, OverlayTrace(Unmasked(active_labels))>>
        \o [i \in 1..Len(data_table) |-> ScatterTrace(data_table[i].label)]

----------------------------------------------------------------------------
\* higlight_row: the label of the returned filter_query is the curve number.
higlight_row(curveNumber) == curveNumber

----------------------------------------------------------------------------
\* highlight_filter.  The result is a record; raised = TRUE stands for an
\* exception (IndexError / KeyError), after which Dash updates no output.

Raised == [raised |-> TRUE, fig |-> <<>>, labels |-> <<>>, row |-> None]

\* _table.loc[indices, "label"] raises KeyError when the frame has no
\* "label" column (pd.DataFrame([])) or an index is not in the frame.
LocRaises(indices, data_) ==
    \/ Len(data_) = 0
    \/ \E k \in 1..Len(indices) : indices[k] >= Len(data_)

\* A selection test that forgets the remembered row.
is_new_selection_any_cell(cell_index, previous_row) == cell_index # None

\* "if cell_index and cell_index["row"] != previous_row"
is_new_selection(cell_index, previous_row) ==
    cell_index # None /\ cell_index # previous_row

\* "label = indices[cell_index["row"]] + 1"
selected_label(indices, cell_index) == indices[cell_index + 1] + 1

\* The visible positions taken for the visible labels.
filtered_labels_positions(indices, data_) ==
    [k \in 1..Len(indices) |-> indices[k]]

\* "filtered_labels = _table.loc[indices, "label"].values"
filtered_labels(indices, data_) ==
    [k \in 1..Len(indices) |-> data_[indices[k] + 1].label]

highlight_filter(indices, cell_index, data_, active_labels, previous_row) ==
    IF is_new_selection(cell_index, previous_row)
    THEN IF cell_index >= Len(indices)
         THEN Raised
         ELSE [raised |-> FALSE,
               fig |-> Append(image_with_contour(Range(active_labels), data_),
                              ContourTrace(selected_label(indices, cell_index))),
               labels |-> active_labels,
               row |-> cell_index]
    ELSE IF LocRaises(indices, data_)
         THEN Raised
         ELSE [raised |-> FALSE,
               fig |-> image_with_contour(Range(filtered_labels(indices, data_)), data_),
               labels |-> filtered_labels(indices, data_),
               row |-> previous_row]

----------------------------------------------------------------------------
\* toggle_modal / toggle_navbar_collapse

\* Python's "not x" for x in None, True, False.
Not(x) == IF x = "True" THEN "False" ELSE "True"

\* A toggle that negates whether or not a click is recorded.
toggle_modal_always(n1, n2, is_open) == Not(is_open)

\* A toggle that opens the modal on every click.
toggle_modal_open(n1, n2, is_open) ==
    IF n1 > 0 \/ n2 > 0 THEN "True" ELSE is_open

toggle_modal(n1, n2, is_open) ==
    IF n1 > 0 \/ n2 > 0 THEN Not(is_open) ELSE is_open

toggle_navbar_collapse(n, is_open) ==
    IF n > 0 THEN Not(is_open) ELSE is_open

----------------------------------------------------------------------------
\* The DataTable widget

\* derived_virtual_indices for data d under a filter letting through q.
RECURSIVE VirtualIndices(_, _, _)
VirtualIndices(d, q, i) ==
    IF i > Len(d) THEN <<>>
    ELSE (IF d[i].label \in q THEN <<i - 1>> ELSE <<>>)
             \o VirtualIndices(d, q, i + 1)

\* data with the row at 0-based position idx removed.
RemoveRow(d, idx) ==
    [i \in 1..(Len(d) - 1) |-> IF i <= idx THEN d[i] ELSE d[i + 1]]

\* active_cell after a widget event that may clear the selection.
CellAfter(cell) == {cell, None}

----------------------------------------------------------------------------
Init ==
    /\ data = table
    /\ filter_query = current_labels
    /\ derived_virtual_indices = VirtualIndices(table, current_labels, 1)
    /\ active_cell = None
    /\ cache_label_list = Labels(table)
    /\ row_children = None
    /\ figure = image_with_contour(current_labels, table)
    /\ style_data_conditional = None
    /\ modal_is_open = "None"
    /\ navbar_is_open = "None"
    /\ howto_open_clicks = 0
    /\ howto_close_clicks = 0
    /\ navbar_toggler_clicks = 0
    /\ pending = {"toggle_modal", "toggle_navbar_collapse"}
    /\ modal_before = "None"
    /\ navbar_before = "None"

\* The outputs of highlight_filter run on the table's new properties.
RunHighlightFilter(indices, cell, data_) ==
    LET out == highlight_filter(indices, cell, data_, cache_label_list, row_children)
    IN  IF out.raised
        THEN UNCHANGED <<figure, cache_label_list, row_children>>
        ELSE /\ figure' = out.fig
             /\ cache_label_list' = out.labels
             /\ row_children' = out.row

\* The user edits the filter row of the table.
FilterChanged(q) ==
    /\ q # filter_query
    /\ filter_query' = q
    /\ derived_virtual_indices' = VirtualIndices(data, q, 1)
    /\ active_cell' \in CellAfter(active_cell)
    /\ UNCHANGED data
    /\ RunHighlightFilter(derived_virtual_indices', active_cell', data)
    /\ UNCHANGED <<style_data_conditional, toggleVars>>

\* The user clicks a cell of the row at view position r (any column).
CellActivated(r) ==
    /\ r < Len(derived_virtual_indices)
    /\ active_cell' = r
    /\ UNCHANGED <<data, filter_query, derived_virtual_indices>>
    /\ RunHighlightFilter(derived_virtual_indices, r, data)
    /\ UNCHANGED <<style_data_conditional, toggleVars>>

\* The user deletes the row at view position r (row_deletable=True).
RowDeleted(r) ==
    /\ r < Len(derived_virtual_indices)
    /\ data' = RemoveRow(data, derived_virtual_indices[r + 1])
    /\ derived_virtual_indices' = VirtualIndices(data', filter_query, 1)
    /\ active_cell' \in CellAfter(active_cell)
    /\ UNCHANGED filter_query
    /\ RunHighlightFilter(derived_virtual_indices', active_cell', data')
    /\ UNCHANGED <<style_data_conditional, toggleVars>>

\* The user hovers over the trace with curve number c of the figure.
Hover(c) ==
    /\ c < Len(figure)
    /\ figure[c + 1].type # "contour"
    /\ style_data_conditional' = higlight_row(c)
    /\ UNCHANGED <<tableVars, toggleVars>>

\* Page load fires the two toggle callbacks once, with no click recorded.
InitialToggleModal ==
    /\ "toggle_modal" \in pending
    /\ pending' = pending \ {"toggle_modal"}
    /\ modal_is_open' = toggle_modal(howto_open_clicks, howto_close_clicks, modal_is_open)
    /\ UNCHANGED <<tableVars, style_data_conditional, navbar_is_open,
                   howto_open_clicks, howto_close_clicks, navbar_toggler_clicks,
                   modal_before, navbar_before>>

InitialToggleNavbar ==
    /\ "toggle_navbar_collapse" \in pending
    /\ pending' = pending \ {"toggle_navbar_collapse"}
    /\ navbar_is_open' = toggle_navbar_collapse(navbar_toggler_clicks, navbar_is_open)
    /\ UNCHANGED <<tableVars, style_data_conditional, modal_is_open,
                   howto_open_clicks, howto_close_clicks, navbar_toggler_clicks,
                   modal_before, navbar_before>>

ClickHowtoOpen ==
    /\ "toggle_modal" \notin pending
    /\ howto_open_clicks < MaxClicks
    /\ howto_open_clicks' = howto_open_clicks + 1
    /\ modal_before' = modal_is_open
    /\ modal_is_open' = toggle_modal(howto_open_clicks', howto_close_clicks, modal_is_open)
    /\ UNCHANGED <<tableVars, style_data_conditional, navbar_is_open,
                   howto_close_clicks, navbar_toggler_clicks, pending, navbar_before>>

ClickHowtoClose ==
    /\ "toggle_modal" \notin pending
    /\ howto_close_clicks < MaxClicks
    /\ howto_close_clicks' = howto_close_clicks + 1
    /\ modal_before' = modal_is_open
    /\ modal_is_open' = toggle_modal(howto_open_clicks, howto_close_clicks', modal_is_open)
    /\ UNCHANGED <<tableVars, style_data_conditional, navbar_is_open,
                   howto_open_clicks, navbar_toggler_clicks, pending, navbar_before>>

ClickNavbarToggler ==
    /\ "toggle_navbar_collapse" \notin pending
    /\ navbar_toggler_clicks < MaxClicks
    /\ navbar_toggler_clicks' = navbar_toggler_clicks + 1
    /\ navbar_before' = navbar_is_open
    /\ navbar_is_open' = toggle_navbar_collapse(navbar_toggler_clicks', navbar_is_open)
    /\ UNCHANGED <<tableVars, style_data_conditional, modal_is_open,
                   howto_open_clicks, howto_close_clicks, pending, modal_before>>

\* Any event of the page.
Next ==
    \/ \E q \in SUBSET current_labels : FilterChanged(q)
    \/ \E r \in 0..(NumLabels - 1) : CellActivated(r)
    \/ \E r \in 0..(NumLabels - 1) : RowDeleted(r)
    \/ \E c \in 0..(NumLabels + 2) : Hover(c)
    \/ InitialToggleModal
    \/ InitialToggleNavbar
    \/ ClickHowtoOpen
    \/ ClickHowtoClose
    \/ ClickNavbarToggler

Spec == Init /\ [][Next]_vars

\* The page load and the events of the table and the graph; no button is clicked.
NextTable ==
    \/ \E q \in SUBSET current_labels : FilterChanged(q)
    \/ \E r \in 0..(NumLabels - 1) : CellActivated(r)
    \/ \E r \in 0..(NumLabels - 1) : RowDeleted(r)
    \/ \E c \in 0..(NumLabels + 2) : Hover(c)
    \/ InitialToggleModal
    \/ InitialToggleNavbar

SpecTable == Init /\ [][NextTable]_vars

\* The page load and the clicks on the three buttons; the table is left alone.
NextToggle ==
    \/ InitialToggleModal
    \/ InitialToggleNavbar
    \/ ClickHowtoOpen
    \/ ClickHowtoClose
    \/ ClickNavbarToggler

SpecToggle == Init /\ [][NextToggle]_vars

----------------------------------------------------------------------------
\* Properties

\* A step that changes a property of the table and so runs highlight_filter.
TableEvent ==
    \/ \E q \in SUBSET current_labels : FilterChanged(q)
    \/ \E r \in 0..(NumLabels - 1) : CellActivated(r)
    \/ \E r \in 0..(NumLabels - 1) : RowDeleted(r)

\* What highlight_filter returns in the step: its inputs are the table's new
\* properties and the stored state.
StepOutput ==
    highlight_filter(derived_virtual_indices', active_cell', data',
                     cache_label_list, row_children)

\* The labels outlined by a contour trace of a figure.
Outlines(fig) == SelectSeq(fig, LAMBDA t : t.type = "contour")
\* The labels that have a hover (scatter) trace in a figure.
HoverLabels(fig) == {fig[k].name : k \in {j \in 1..Len(fig) : fig[j].type = "scatter"}}
\* The labels the overlay image of a figure colours.
OverlayLabels(fig) == fig[2].shown
\* The labels of the rows visible in the table.
VisibleLabels == filtered_labels(derived_virtual_indices, data)

\* C1 (as stated): in every reachable state the table has exactly as many rows
\* as there are positive labels in the label map.
C1_RowCountFixed == Len(data) = Cardinality(current_labels)

\* C1 (amended): the table never has more rows than there are positive labels,
\* its rows carry distinct positive labels, a row deletion removes exactly one
\* row, and no other event changes the row count.
C1_RowCountOnlyShrinksByDeletion ==
    /\ [](/\ Len(data) <= Cardinality(current_labels)
          /\ Range(Labels(data)) \subseteq current_labels
          /\ Cardinality(Range(Labels(data))) = Len(data))
    /\ [][IF \E r \in 0..(NumLabels - 1) : RowDeleted(r)
          THEN Len(data') = Len(data) - 1
          ELSE Len(data') = Len(data)]_vars

C1_Witness ==
    /\ Len(data) = NumLabels - 1
    /\ filter_query # current_labels
    /\ active_cell # None

\* C2: the active label set stored in cache-label-list is always a subset of
\* the positive labels computed at startup.
C2_ActiveSubsetOfCurrentLabels == Range(cache_label_list) \subseteq current_labels

C2_Witness ==
    /\ filter_query # current_labels
    /\ Range(cache_label_list) = filter_query
    /\ cache_label_list # <<>>
    /\ Len(data) = NumLabels

\* C3: every label of the active label set is the label of a row of the
\* table's current data.
C3_ActiveLabelsAreRows == Range(cache_label_list) \subseteq Range(Labels(data))

\* A click on one of the two modal buttons, after an earlier one.
SecondModalClick ==
    /\ ClickHowtoOpen \/ ClickHowtoClose
    /\ howto_open_clicks + howto_close_clicks >= 1
\* A click on the navbar toggler, after an earlier one.
SecondNavbarClick ==
    /\ ClickNavbarToggler
    /\ navbar_toggler_clicks >= 1

\* C4 (as stated): two consecutive toggle events return is_open to the value
\* it had before the first of them, whatever that value was.
C4_DoubleToggleRestores ==
    [][/\ SecondModalClick => modal_is_open' = modal_before
       /\ SecondNavbarClick => navbar_is_open' = navbar_before]_vars

\* The value two toggles lead to: the original boolean, and False from None.
AfterTwoToggles(v) == IF v = "None" THEN "False" ELSE v

\* C4 (amended): two consecutive toggle events return is_open to its original
\* value when that value is a boolean; from the never-set value None they
\* lead to False (closed, as None is shown, but not the same value).
C4_DoubleToggleRestoresBoolean ==
    [][/\ SecondModalClick => modal_is_open' = AfterTwoToggles(modal_before)
       /\ SecondNavbarClick => navbar_is_open' = AfterTwoToggles(navbar_before)]_vars

C4_Witness ==
    /\ howto_open_clicks = 1
    /\ howto_close_clicks = 1
    /\ modal_is_open = "False"
    /\ navbar_toggler_clicks = 2
    /\ navbar_is_open = "False"

\* C5: a figure never holds more than one outline; a run of highlight_filter
\* whose active cell row equals the remembered row (or that has no active
\* cell) returns a figure without outline, and a run whose active cell row
\* differs from the remembered row returns a figure with exactly one outline
\* and stores that row as the remembered row.
C5_NoDuplicateOutline ==
    /\ [](Len(Outlines(figure)) <= 1)
    /\ [][(TableEvent /\ ~StepOutput.raised) =>
              IF active_cell' # None /\ active_cell' # row_children
              THEN Len(Outlines(figure')) = 1 /\ row_children' = active_cell'
              ELSE Len(Outlines(figure')) = 0 /\ row_children' = row_children]_vars

C5_Witness ==
    /\ active_cell # None
    /\ row_children = active_cell
    /\ Len(Outlines(figure)) = 0
    /\ Len(data) = NumLabels
    /\ filter_query = current_labels

\* C6: when a cell of a newly selected row is activated, the outline added to
\* the figure is the outline of the label shown in that row of the table.
C6_OutlineIsRowLabel ==
    [][\A r \in 0..(NumLabels - 1) :
          (CellActivated(r) /\ r # row_children) =>
              Outlines(figure') = <<ContourTrace(VisibleLabels[r + 1])>>]_vars

\* C7: hovering over the hover trace of the region with label L sets the row
\* style's filter query to "{label} eq L".
C7_HoverHighlightsRegionRow ==
    [][\A c \in 0..(NumLabels + 2) :
          (Hover(c) /\ figure[c + 1].type = "scatter") =>
              style_data_conditional' = figure[c + 1].name]_vars

\* C8: the figure's overlay colours exactly the active label set and the
\* labels that have a hover trace are exactly the active label set.
C8_HoverTracesAreActiveSet ==
    /\ OverlayLabels(figure) = Range(cache_label_list)
    /\ HoverLabels(figure) = Range(cache_label_list)

\* C9: the stored active label set is the sequence of labels of the rows of
\* the current data at the current derived_virtual_indices.
C9_ActiveSetIsVisibleLabels == cache_label_list = VisibleLabels

\* C10: the selection branch of highlight_filter leaves the cached active
\* label set unchanged, the filter branch leaves the remembered row unchanged,
\* higlight_row changes nothing but the row style, and the toggle callbacks
\* fired with no click recorded leave is_open unchanged.
C10_FrameConditions ==
    [][/\ (TableEvent /\ ~StepOutput.raised) =>
              IF active_cell' # None /\ active_cell' # row_children
              THEN cache_label_list' = cache_label_list
              ELSE row_children' = row_children
       /\ (\E c \in 0..(NumLabels + 2) : Hover(c)) =>
              /\ figure' = figure
              /\ cache_label_list' = cache_label_list
              /\ row_children' = row_children
       /\ (InitialToggleModal /\ howto_open_clicks = 0 /\ howto_close_clicks = 0) =>
              modal_is_open' = modal_is_open
       /\ (InitialToggleNavbar /\ navbar_toggler_clicks = 0) =>
              navbar_is_open' = navbar_is_open]_vars

C10_Witness ==
    /\ pending = {}
    /\ modal_is_open = "None"
    /\ navbar_is_open = "None"
    /\ style_data_conditional # None
    /\ row_children # None
    /\ filter_query # current_labels

====
